---- MODULE Spec2Model ----
(***************************************************************************)
(* A model of transcribe_wav (src/src/main.rs): the main flow of `main`,   *)
(* the `recognized` callback that aggregates recognition events into the   *)
(* transcript buffer and the speaker registry, and the renderer that       *)
(* writes one Markdown line per buffered word.                             *)
(***************************************************************************)
EXTENDS Integers, Sequences, FiniteSets, TLC

(* ------------------------------------------------------------------ *)
(* Bounds                                                               *)
(* ------------------------------------------------------------------ *)

\* The number of recognition events one session emits at most.
MaxEvents == 2

(* ------------------------------------------------------------------ *)
(* serde_json::Value, as far as the program looks at it                 *)
(* ------------------------------------------------------------------ *)

JStr(s) == [t |-> "str", s |-> s]
JNum(n) == [t |-> "num", n |-> n]
JArr(a) == [t |-> "arr", a |-> a]
JObj(f) == [t |-> "obj", f |-> f]

\* Option::None of a lookup or a typed view.
None == [t |-> "none"]

IsSome(o) == o.t # "none"

\* Value::get(key): the member of an object, None for anything else.
Get(v, k) == IF v.t = "obj" /\ k \in DOMAIN v.f THEN v.f[k] ELSE None

\* Option::and_then(Value::as_array / as_str / as_f64).
as_array(o) == IF o.t = "arr" THEN o ELSE None
as_str(o) == IF o.t = "str" THEN o ELSE None
as_f64(o) == IF o.t = "num" THEN o ELSE None

(* ------------------------------------------------------------------ *)
(* The environment                                                     *)
(* ------------------------------------------------------------------ *)

\* The variables main reads, in the order it reads them (lines 17-20).
Required == <<"AZURE_SPEECH_KEY", "AZURE_SERVICE_REGION", "SOUND_FILE", "OUTPUT_FILE">>

RequiredSet == {Required[i] : i \in 1..Len(Required)}

(* ------------------------------------------------------------------ *)
(* Recognition events the service may deliver                          *)
(* ------------------------------------------------------------------ *)

TicksPerSecond == 10000000

Word4(sp, w, off, dur) ==
    JObj([SpeakerId |-> JStr(sp), Word |-> JStr(w), Offset |-> JNum(off), Duration |-> JNum(dur)])

Hyp(words) == JObj([Words |-> JArr(words)])

Result(hyps) == JObj([NBest |-> JArr(hyps)])

\* event.result: the reason and priv_text; a text is modelled by whether
\* serde_json accepts it and the value it then parses to.
Speech(json) ==
    [reason |-> "RecognizedSpeech", priv_text |-> [some |-> TRUE, wellformed |-> TRUE, value |-> json]]

EvTwoSpeakers ==
    Speech(Result(<<Hyp(<<Word4("A", "hello", 0, TicksPerSecond),
                          Word4("B", "world", TicksPerSecond, TicksPerSecond)>>)>>))

EvRepeatAndNew ==
    Speech(Result(<<Hyp(<<Word4("A", "again", 50000000, 20000000),
                          Word4("C", "new", 12345678, 7654321)>>)>>))

EvTwoHypotheses ==
    Speech(Result(<<Hyp(<<Word4("A", "hi", 0, 4500000)>>),
                    Hyp(<<Word4("D", "high", 0, 4400000)>>)>>))

EvNoSpeakerId ==
    Speech(Result(<<Hyp(<<JObj([Word |-> JStr("um"), Offset |-> JNum(30000000), Duration |-> JNum(0)]),
                          JObj([SpeakerId |-> JNum(7), Word |-> JStr("er"),
                                Offset |-> JNum(31000000), Duration |-> JNum(-1000000)])>>)>>))

EvNoNBest ==
    Speech(JObj([DisplayText |-> JStr("hello world")]))

EvNoWords ==
    Speech(Result(<<JObj([Display |-> JStr("hello")]),
                    Hyp(<<Word4("B", "hello", 0, TicksPerSecond)>>)>>))

EvNoWord ==
    Speech(Result(<<Hyp(<<Word4("A", "ok", 0, TicksPerSecond),
                          JObj([SpeakerId |-> JStr("B"), Offset |-> JNum(TicksPerSecond),
                                Duration |-> JNum(TicksPerSecond)]),
                          Word4("C", "late", 20000000, TicksPerSecond)>>)>>))

EvNoOffset ==
    Speech(Result(<<Hyp(<<JObj([SpeakerId |-> JStr("B"), Word |-> JStr("x"),
                                Offset |-> JStr("0"), Duration |-> JNum(TicksPerSecond)])>>)>>))

EvNoDuration ==
    Speech(Result(<<Hyp(<<JObj([SpeakerId |-> JStr("C"), Word |-> JStr("y"),
                                Offset |-> JNum(0)]),
                          Word4("B", "z", TicksPerSecond, TicksPerSecond)>>)>>))

EvNoText ==
    [reason |-> "RecognizedSpeech", priv_text |-> [some |-> FALSE, wellformed |-> FALSE, value |-> None]]

EvBadJson ==
    [reason |-> "RecognizedSpeech", priv_text |-> [some |-> TRUE, wellformed |-> FALSE, value |-> None]]

EvNoMatch ==
    [reason |-> "NoMatch", priv_text |-> [some |-> FALSE, wellformed |-> FALSE, value |-> None]]

Events ==
    { EvTwoSpeakers, EvRepeatAndNew, EvTwoHypotheses, EvNoSpeakerId, EvNoNBest, EvNoWords,
      EvNoWord, EvNoOffset, EvNoDuration, EvNoText, EvBadJson, EvNoMatch }

\* serde_json::from_str(text): Ok(value) for a well-formed text, Err otherwise.
from_str(text) == IF text.wellformed THEN [ok |-> TRUE, value |-> text.value] ELSE [ok |-> FALSE, value |-> None]

(* ------------------------------------------------------------------ *)
(* Pure helpers of the callback and the renderer                       *)
(* ------------------------------------------------------------------ *)

\* word.get("SpeakerId").and_then(|s| s.as_str()).unwrap_or("Unknown"), in the callback.
cb_speaker_id(word) ==
    LET s == as_str(Get(word, "SpeakerId")) IN IF IsSome(s) THEN s.s ELSE "Unknown"

\* render_speaker_id with another default key than the callback's.
render_speaker_id_OtherDefault(word) ==
    LET s == as_str(Get(word, "SpeakerId")) IN IF IsSome(s) THEN s.s ELSE "unknown"

\* The same expression in the renderer.
render_speaker_id(word) ==
    LET s == as_str(Get(word, "SpeakerId")) IN IF IsSome(s) THEN s.s ELSE "Unknown"

\* format!("Speaker {}", n)
Label(n) == "Speaker " \o ToString(n)

\* Register with the label numbered from the length alone (the + 1 forgotten).
Register_NoPlusOne(reg, id) ==
    IF id \in DOMAIN reg THEN reg ELSE reg @@ (id :> Label(Cardinality(DOMAIN reg)))

\* Register as insert(): a speaker-id seen again is given a fresh label.
Register_Overwrite(reg, id) ==
    (id :> Label(Cardinality(DOMAIN reg) + 1)) @@ reg

\* locked_speakers.entry(id).or_insert_with(|| format!("Speaker {}", len + 1))
Register(reg, id) ==
    IF id \in DOMAIN reg THEN reg ELSE reg @@ (id :> Label(Cardinality(DOMAIN reg) + 1))

\* An f64 number of seconds, kept exactly as ticks over the divisor.
Seconds(ticks, divisor) == [num |-> ticks, den |-> divisor]

\* {:.2}: the number of hundredths nearest to x. (On an exact tie the digit
\* printed depends on the binary double; no tick value of Events is one.)
Fmt2(x) == LET u == x.den \div 100 IN (2 * x.num + u) \div (2 * u)

\* The line of the unwrap() that panics on this word, 0 when none does
\* (callback: lines 54-57).
cb_word_panic(word) ==
    IF ~IsSome(as_str(Get(word, "Word"))) THEN 54
    ELSE IF ~IsSome(as_f64(Get(word, "Offset"))) THEN 55
    ELSE IF ~IsSome(as_f64(Get(word, "Duration"))) THEN 57
    ELSE 0

\* Renderer: lines 86-89.
render_word_panic(word) ==
    IF ~IsSome(as_str(Get(word, "Word"))) THEN 86
    ELSE IF ~IsSome(as_f64(Get(word, "Offset"))) THEN 87
    ELSE IF ~IsSome(as_f64(Get(word, "Duration"))) THEN 89
    ELSE 0

cb_start_time(word) == Seconds(Get(word, "Offset").n, TicksPerSecond)

cb_end_time(word) == Seconds(Get(word, "Offset").n + Get(word, "Duration").n, TicksPerSecond)

render_start_time(word) == Seconds(Get(word, "Offset").n, TicksPerSecond)

\* render_end_time with the offset left out of the sum.
render_end_time_DurationOnly(word) == Seconds(Get(word, "Duration").n, TicksPerSecond)

render_end_time(word) == Seconds(Get(word, "Offset").n + Get(word, "Duration").n, TicksPerSecond)

\* "- **{}** ({:.2}s - {:.2}s): {}"
FormatLine(speaker, start, end, text) ==
    [speaker |-> speaker, start |-> Fmt2(start), end |-> Fmt2(end), text |-> text]

\* The end of an iteration.
AtEnd == [end |-> TRUE, r |-> 0, h |-> 0, w |-> 0]

\* CbSeekIn that takes the words of the best-ranked hypothesis only.
RECURSIVE CbSeekIn_BestOnly(_, _, _)
CbSeekIn_BestOnly(nbest, h, w) ==
    IF h > Len(nbest) \/ h > 1 THEN AtEnd
    ELSE LET ws == as_array(Get(nbest[h], "Words")) IN
         IF ~IsSome(ws) \/ w > Len(ws.a) THEN CbSeekIn_BestOnly(nbest, h + 1, 1)
         ELSE [end |-> FALSE, r |-> 0, h |-> h, w |-> w]

\* nbest.iter().flat_map(|s| s.get("Words").and_then(|w| w.as_array())), then
\* `for word in sentence`: the first word at or after word w of hypothesis h.
RECURSIVE CbSeekIn(_, _, _)
CbSeekIn(nbest, h, w) ==
    IF h > Len(nbest) THEN AtEnd
    ELSE LET ws == as_array(Get(nbest[h], "Words")) IN
         IF ~IsSome(ws) \/ w > Len(ws.a) THEN CbSeekIn(nbest, h + 1, 1)
         ELSE [end |-> FALSE, r |-> 0, h |-> h, w |-> w]

\* if let Some(nbest) = result_json.get("NBest").and_then(|n| n.as_array())
CbSeek(json, h, w) ==
    LET nb == as_array(Get(json, "NBest")) IN
    IF ~IsSome(nb) THEN AtEnd ELSE CbSeekIn(nb.a, h, w)

\* RenderSeek that renders the best-ranked hypothesis of each result only.
RECURSIVE RenderSeek_BestOnly(_, _, _, _)
RenderSeek_BestOnly(buf, r, h, w) ==
    IF r > Len(buf) THEN AtEnd
    ELSE LET nb == as_array(Get(buf[r], "NBest")) IN
         IF ~IsSome(nb) \/ h > Len(nb.a) \/ h > 1 THEN RenderSeek_BestOnly(buf, r + 1, 1, 1)
         ELSE LET ws == as_array(Get(nb.a[h], "Words")) IN
              IF ~IsSome(ws) \/ w > Len(ws.a) THEN RenderSeek_BestOnly(buf, r, h + 1, 1)
              ELSE [end |-> FALSE, r |-> r, h |-> h, w |-> w]

\* The renderer's three nested loops (lines 78-82): the first word at or
\* after word w of hypothesis h of result r.
RECURSIVE RenderSeek(_, _, _, _)
RenderSeek(buf, r, h, w) ==
    IF r > Len(buf) THEN AtEnd
    ELSE LET nb == as_array(Get(buf[r], "NBest")) IN
         IF ~IsSome(nb) \/ h > Len(nb.a) THEN RenderSeek(buf, r + 1, 1, 1)
         ELSE LET ws == as_array(Get(nb.a[h], "Words")) IN
              IF ~IsSome(ws) \/ w > Len(ws.a) THEN RenderSeek(buf, r, h + 1, 1)
              ELSE [end |-> FALSE, r |-> r, h |-> h, w |-> w]

\* The word an iteration stands at.
WordAt(json, p) == Get(Get(json, "NBest").a[p.h], "Words").a[p.w]

(* ------------------------------------------------------------------ *)
(* State                                                               *)
(* ------------------------------------------------------------------ *)

VARIABLES
    env,              \* the names of the environment variables that are set
    mainPc,           \* the line of main the main flow stands at
    mainExit,         \* "running", "ok" (line 100), "err" (a `?`), "panic"
    configured,       \* SpeechConfig and SpeechRecognizer are built (22-29)
    connected,        \* the recognized callback is connected (34-66)
    session,          \* the recognizer's session: "idle", "starting", "started", "stopped"
    events,           \* the events the session has emitted, in order
    cb,               \* per emitted event, the state of its callback run
    transcript_data,  \* the buffer: Vec<serde_json::Value>
    speakers,         \* the registry: HashMap<String, String>
    transcriptLock,   \* who holds transcript_data's mutex
    speakersLock,     \* who holds speakers' mutex
    stdout,           \* the progress lines the callback printed
    fileCreated,      \* File::create has succeeded
    outputFile,       \* the lines written to the output file
    renderPos,        \* the renderer's position in the buffer
    processed         \* history: the words the callback registered, in order

vars ==
    << env, mainPc, mainExit, configured, connected, session, events, cb,
       transcript_data, speakers, transcriptLock, speakersLock, stdout,
       fileCreated, outputFile, renderPos, processed >>

Free == [who |-> "free", id |-> 0]
MainHolds == [who |-> "main", id |-> 0]
CbHolds(e) == [who |-> "cb", id |-> e]

EventIds == 1..MaxEvents

\* A callback run that has not been dispatched.
CbIdle == [st |-> "idle", pc |-> 0, h |-> 0, w |-> 0]

Init ==
    /\ env \in SUBSET RequiredSet
    /\ mainPc = 15
    /\ mainExit = "running"
    /\ configured = FALSE
    /\ connected = FALSE
    /\ session = "idle"
    /\ events = << >>
    /\ cb = [e \in EventIds |-> CbIdle]
    /\ transcript_data = << >>
    /\ speakers = << >>
    /\ transcriptLock = Free
    /\ speakersLock = Free
    /\ stdout = << >>
    /\ fileCreated = FALSE
    /\ outputFile = << >>
    /\ renderPos = AtEnd
    /\ processed = << >>

\* The process lives until main returns or panics.
Running == mainExit = "running"

(* ------------------------------------------------------------------ *)
(* The main flow up to the end of the session (lines 15-72)            *)
(* ------------------------------------------------------------------ *)

\* main ends: its guards are dropped and the process exits.
MainExits(how, line) ==
    /\ mainExit' = how
    /\ mainPc' = line
    /\ transcriptLock' = IF transcriptLock = MainHolds THEN Free ELSE transcriptLock
    /\ speakersLock' = IF speakersLock = MainHolds THEN Free ELSE speakersLock

\* Line 15: dotenv().ok() sets the variables a .env file gives, if there is one.
MainDotenv ==
    /\ Running /\ mainPc = 15
    /\ \E file \in SUBSET RequiredSet : env' = env \cup file
    /\ mainPc' = 17
    /\ UNCHANGED << mainExit, configured, connected, session, events, cb, transcript_data,
                    speakers, transcriptLock, speakersLock, stdout, fileCreated, outputFile,
                    renderPos, processed >>

\* MainExpect that lets an unset OUTPUT_FILE pass (line 20 without expect).
MainExpect_OutputFileUnchecked ==
    /\ Running /\ mainPc \in 17..20
    /\ IF Required[mainPc - 16] \in env \/ mainPc = 20
       THEN /\ mainPc' = IF mainPc = 20 THEN 22 ELSE mainPc + 1
            /\ UNCHANGED << mainExit, transcriptLock, speakersLock >>
       ELSE MainExits("panic", mainPc)
    /\ UNCHANGED << env, configured, connected, session, events, cb, transcript_data,
                    speakers, stdout, fileCreated, outputFile, renderPos, processed >>

\* Lines 17-20: env::var(NAME).expect("NAME must be set").
MainExpect ==
    /\ Running /\ mainPc \in 17..20
    /\ IF Required[mainPc - 16] \in env
       THEN /\ mainPc' = IF mainPc = 20 THEN 22 ELSE mainPc + 1
            /\ UNCHANGED << mainExit, transcriptLock, speakersLock >>
       ELSE MainExits("panic", mainPc)
    /\ UNCHANGED << env, configured, connected, session, events, cb, transcript_data,
                    speakers, stdout, fileCreated, outputFile, renderPos, processed >>

\* Lines 22-29: SpeechConfig, AudioConfig and SpeechRecognizer are built; each
\* call may fail and `?` returns the error.
MainConfigure ==
    /\ Running /\ mainPc = 22
    /\ \E ok \in BOOLEAN :
          IF ok
          THEN /\ configured' = TRUE
               /\ mainPc' = 31
               /\ UNCHANGED << mainExit, transcriptLock, speakersLock >>
          ELSE /\ MainExits("err", 22)
               /\ UNCHANGED configured
    /\ UNCHANGED << env, connected, session, events, cb, transcript_data, speakers, stdout,
                    fileCreated, outputFile, renderPos, processed >>

\* Lines 31-66: the buffer and the registry are created empty and the
\* callback is connected to recognizer.recognized.
MainConnect ==
    /\ Running /\ mainPc = 31
    /\ transcript_data' = << >>
    /\ speakers' = << >>
    /\ connected' = TRUE
    /\ mainPc' = 69
    /\ UNCHANGED << env, mainExit, configured, session, events, cb, transcriptLock,
                    speakersLock, stdout, fileCreated, outputFile, renderPos, processed >>

\* Line 69: recognizer.start_continuous_recognition().await?
MainStart ==
    /\ Running /\ mainPc = 69
    /\ \E ok \in BOOLEAN :
          IF ok
          THEN /\ session' = "starting"
               /\ mainPc' = 71
               /\ UNCHANGED << mainExit, transcriptLock, speakersLock >>
          ELSE /\ MainExits("err", 69)
               /\ UNCHANGED session
    /\ UNCHANGED << env, configured, connected, events, cb, transcript_data, speakers, stdout,
                    fileCreated, outputFile, renderPos, processed >>

\* MainPoll that goes on without waiting for the flag.
MainPoll_NoWait ==
    /\ Running /\ mainPc = 71
    /\ mainPc' = 72
    /\ UNCHANGED << env, mainExit, configured, connected, session, events, cb, transcript_data,
                    speakers, transcriptLock, speakersLock, stdout, fileCreated, outputFile,
                    renderPos, processed >>

\* Line 71: while !recognizer.session_started().await {}
MainPoll ==
    /\ Running /\ mainPc = 71
    /\ mainPc' = IF session = "started" THEN 72 ELSE 71
    /\ UNCHANGED << env, mainExit, configured, connected, session, events, cb, transcript_data,
                    speakers, transcriptLock, speakersLock, stdout, fileCreated, outputFile,
                    renderPos, processed >>

\* Line 72: recognizer.stop_continuous_recognition().await?
MainStop ==
    /\ Running /\ mainPc = 72
    /\ \E ok \in BOOLEAN :
          IF ok
          THEN /\ session' = "stopped"
               /\ mainPc' = 75
               /\ UNCHANGED << mainExit, transcriptLock, speakersLock >>
          ELSE /\ MainExits("err", 72)
               /\ UNCHANGED session
    /\ UNCHANGED << env, configured, connected, events, cb, transcript_data, speakers, stdout,
                    fileCreated, outputFile, renderPos, processed >>

(* ------------------------------------------------------------------ *)
(* The recognition session (the external recognizer)                   *)
(* ------------------------------------------------------------------ *)

\* The session reports that it has started: session_started() turns true.
SessionStarted ==
    /\ Running /\ session = "starting"
    /\ session' = "started"
    /\ UNCHANGED << env, mainPc, mainExit, configured, connected, events, cb, transcript_data,
                    speakers, transcriptLock, speakersLock, stdout, fileCreated, outputFile,
                    renderPos, processed >>

\* A started session emits an event: the connected callback is dispatched
\* with it and runs on the recognizer's dispatch context from line 38.
Emit ==
    /\ Running /\ session = "started" /\ connected
    /\ Len(events) < MaxEvents
    /\ \E ev \in Events :
          /\ events' = Append(events, ev)
          /\ cb' = [cb EXCEPT ![Len(events) + 1] = [st |-> "running", pc |-> 38, h |-> 0, w |-> 0]]
    /\ UNCHANGED << env, mainPc, mainExit, configured, session, connected, transcript_data,
                    speakers, transcriptLock, speakersLock, stdout, fileCreated, outputFile,
                    renderPos, processed >>

(* ------------------------------------------------------------------ *)
(* The recognized callback (lines 37-65), one run per emitted event    *)
(* ------------------------------------------------------------------ *)

\* result_json of the run for event e (line 40).
ResultJson(e) == from_str(events[e].priv_text).value

\* CbPanics that skips a word with a bad field and goes on with the next
\* one instead of unwinding.
CbPanics_SkipsBadWord(e, line) ==
    IF line < 54
    THEN /\ cb' = [cb EXCEPT ![e] = [st |-> "panic", pc |-> line, h |-> @.h, w |-> @.w]]
         /\ UNCHANGED << transcriptLock, speakersLock >>
    ELSE /\ cb' = [cb EXCEPT ![e] = [st |-> "running", pc |-> 45, h |-> @.h, w |-> @.w + 1]]
         /\ speakersLock' = Free
         /\ UNCHANGED transcriptLock

\* The run panics at `line`: its guards are dropped as it unwinds; main goes on.
CbPanics(e, line) ==
    /\ cb' = [cb EXCEPT ![e] = [st |-> "panic", pc |-> line, h |-> @.h, w |-> @.w]]
    /\ transcriptLock' = IF transcriptLock = CbHolds(e) THEN Free ELSE transcriptLock
    /\ speakersLock' = IF speakersLock = CbHolds(e) THEN Free ELSE speakersLock

\* Lines 38-40: the reason is tested, priv_text unwrapped and parsed.
CbBegin(e) ==
    /\ Running /\ cb[e].st = "running" /\ cb[e].pc = 38
    /\ IF events[e].reason # "RecognizedSpeech"
       THEN /\ cb' = [cb EXCEPT ![e] = [st |-> "returned", pc |-> 65, h |-> 0, w |-> 0]]
            /\ UNCHANGED << transcriptLock, speakersLock >>
       ELSE IF ~events[e].priv_text.some
       THEN CbPanics(e, 39)
       ELSE IF ~from_str(events[e].priv_text).ok
       THEN CbPanics(e, 40)
       ELSE /\ cb' = [cb EXCEPT ![e].pc = 42]
            /\ UNCHANGED << transcriptLock, speakersLock >>
    /\ UNCHANGED << env, mainPc, mainExit, configured, connected, session, events,
                    transcript_data, speakers, stdout, fileCreated, outputFile, renderPos,
                    processed >>

\* CbLockPush with the guard a temporary of the push statement: the buffer
\* is unlocked again as soon as the result is appended.
CbLockPush_DropsGuard(e) ==
    /\ Running /\ cb[e].st = "running" /\ cb[e].pc = 42
    /\ transcriptLock = Free
    /\ transcript_data' = Append(transcript_data, ResultJson(e))
    /\ cb' = [cb EXCEPT ![e] = [st |-> "running", pc |-> 45, h |-> 1, w |-> 1]]
    /\ UNCHANGED << env, mainPc, mainExit, configured, connected, session, events, speakers,
                    transcriptLock, speakersLock, stdout, fileCreated, outputFile, renderPos,
                    processed >>

\* CbLockPush that puts the result in front of the buffer (insert(0, ..)).
CbLockPush_Prepends(e) ==
    /\ Running /\ cb[e].st = "running" /\ cb[e].pc = 42
    /\ transcriptLock = Free
    /\ transcriptLock' = CbHolds(e)
    /\ transcript_data' = << ResultJson(e) >> \o transcript_data
    /\ cb' = [cb EXCEPT ![e] = [st |-> "running", pc |-> 45, h |-> 1, w |-> 1]]
    /\ UNCHANGED << env, mainPc, mainExit, configured, connected, session, events, speakers,
                    speakersLock, stdout, fileCreated, outputFile, renderPos, processed >>

\* CbLockPush that takes the registry lock first and the buffer lock
\* while holding it (the registry lock is given back after the push).
CbLockPush_SpeakersFirst(e) ==
    /\ Running /\ cb[e].st = "running"
    /\ \/ /\ cb[e].pc = 42
          /\ speakersLock = Free
          /\ speakersLock' = CbHolds(e)
          /\ cb' = [cb EXCEPT ![e].pc = 43]
          /\ UNCHANGED << transcriptLock, transcript_data >>
       \/ /\ cb[e].pc = 43
          /\ transcriptLock = Free
          /\ transcriptLock' = CbHolds(e)
          /\ speakersLock' = Free
          /\ transcript_data' = Append(transcript_data, ResultJson(e))
          /\ cb' = [cb EXCEPT ![e] = [st |-> "running", pc |-> 45, h |-> 1, w |-> 1]]
    /\ UNCHANGED << env, mainPc, mainExit, configured, connected, session, events, speakers,
                    stdout, fileCreated, outputFile, renderPos, processed >>

\* Lines 42-43: the buffer is locked and the result appended to it.
CbLockPush(e) ==
    /\ Running /\ cb[e].st = "running" /\ cb[e].pc = 42
    /\ transcriptLock = Free
    /\ transcriptLock' = CbHolds(e)
    /\ transcript_data' = Append(transcript_data, ResultJson(e))
    /\ cb' = [cb EXCEPT ![e] = [st |-> "running", pc |-> 45, h |-> 1, w |-> 1]]
    /\ UNCHANGED << env, mainPc, mainExit, configured, connected, session, events, speakers,
                    speakersLock, stdout, fileCreated, outputFile, renderPos, processed >>

\* Lines 45-49: the loops reach the next word and the registry is locked.
CbLockSpeakers(e) ==
    /\ Running /\ cb[e].st = "running" /\ cb[e].pc = 45
    /\ LET p == CbSeek(ResultJson(e), cb[e].h, cb[e].w) IN
          /\ ~p.end
          /\ speakersLock = Free
          /\ speakersLock' = CbHolds(e)
          /\ cb' = [cb EXCEPT ![e] = [st |-> "running", pc |-> 50, h |-> p.h, w |-> p.w]]
    /\ UNCHANGED << env, mainPc, mainExit, configured, connected, session, events,
                    transcript_data, speakers, transcriptLock, stdout, fileCreated, outputFile,
                    renderPos, processed >>

\* Lines 50-61: the speaker is looked up or registered, the fields of the
\* word are unwrapped, the progress line is printed and the registry's
\* guard is dropped at the end of the iteration.
CbWord(e) ==
    /\ Running /\ cb[e].st = "running" /\ cb[e].pc = 50
    /\ LET word == WordAt(ResultJson(e), cb[e])
           speaker_id == cb_speaker_id(word)
           locked_speakers == Register(speakers, speaker_id)
       IN /\ speakers' = locked_speakers
          /\ processed' = Append(processed, word)
          /\ IF cb_word_panic(word) # 0
             THEN /\ CbPanics(e, cb_word_panic(word))
                  /\ UNCHANGED stdout
             ELSE /\ stdout' = Append(stdout,
                                      FormatLine(locked_speakers[speaker_id], cb_start_time(word),
                                                 cb_end_time(word), Get(word, "Word").s))
                  /\ speakersLock' = Free
                  /\ cb' = [cb EXCEPT ![e] = [st |-> "running", pc |-> 45, h |-> @.h, w |-> @.w + 1]]
                  /\ UNCHANGED transcriptLock
    /\ UNCHANGED << env, mainPc, mainExit, configured, connected, session, events,
                    transcript_data, fileCreated, outputFile, renderPos >>

\* Lines 62-65: the loops are over; the buffer's guard is dropped.
CbReturn(e) ==
    /\ Running /\ cb[e].st = "running" /\ cb[e].pc = 45
    /\ CbSeek(ResultJson(e), cb[e].h, cb[e].w).end
    /\ cb' = [cb EXCEPT ![e] = [st |-> "returned", pc |-> 65, h |-> 0, w |-> 0]]
    /\ transcriptLock' = Free
    /\ UNCHANGED << env, mainPc, mainExit, configured, connected, session, events,
                    transcript_data, speakers, speakersLock, stdout, fileCreated, outputFile,
                    renderPos, processed >>

(* ------------------------------------------------------------------ *)
(* The renderer (lines 75-100)                                         *)
(* ------------------------------------------------------------------ *)

\* Line 75: File::create(&output_markdown_filename)?
MainCreate ==
    /\ Running /\ mainPc = 75
    /\ \E ok \in BOOLEAN :
          IF ok
          THEN /\ fileCreated' = TRUE
               /\ mainPc' = 77
               /\ UNCHANGED << mainExit, transcriptLock, speakersLock >>
          ELSE /\ MainExits("err", 75)
               /\ UNCHANGED fileCreated
    /\ UNCHANGED << env, configured, connected, session, events, cb, transcript_data, speakers,
                    stdout, outputFile, renderPos, processed >>

\* MainLockTranscript with the guard dropped at once (a temporary): the
\* renderer goes on without holding the buffer.
MainLockTranscript_DropsGuard ==
    /\ Running /\ mainPc = 77
    /\ transcriptLock = Free
    /\ renderPos' = [end |-> FALSE, r |-> 1, h |-> 1, w |-> 1]
    /\ mainPc' = 78
    /\ UNCHANGED << env, mainExit, configured, connected, session, events, cb, transcript_data,
                    speakers, transcriptLock, speakersLock, stdout, fileCreated, outputFile,
                    processed >>

\* Line 77: let locked_transcript = transcript_data.lock().await
MainLockTranscript ==
    /\ Running /\ mainPc = 77
    /\ transcriptLock = Free
    /\ transcriptLock' = MainHolds
    /\ renderPos' = [end |-> FALSE, r |-> 1, h |-> 1, w |-> 1]
    /\ mainPc' = 78
    /\ UNCHANGED << env, mainExit, configured, connected, session, events, cb, transcript_data,
                    speakers, speakersLock, stdout, fileCreated, outputFile, processed >>

\* Lines 78-84: the loops reach the next word and the registry is locked.
MainLockSpeakers ==
    /\ Running /\ mainPc = 78
    /\ LET p == RenderSeek(transcript_data, renderPos.r, renderPos.h, renderPos.w) IN
          /\ ~p.end
          /\ speakersLock = Free
          /\ speakersLock' = MainHolds
          /\ renderPos' = p
    /\ mainPc' = 85
    /\ UNCHANGED << env, mainExit, configured, connected, session, events, cb, transcript_data,
                    speakers, transcriptLock, stdout, fileCreated, outputFile, processed >>

\* Lines 85-92: the label is looked up, the fields of the word are
\* unwrapped and the line is written; the registry's guard is dropped at
\* the end of the iteration.
MainRenderWord ==
    /\ Running /\ mainPc = 85
    /\ LET word == WordAt(transcript_data[renderPos.r], renderPos)
           speaker_id == render_speaker_id(word)
       IN IF speaker_id \notin DOMAIN speakers
          THEN /\ MainExits("panic", 85)
               /\ UNCHANGED << outputFile, renderPos >>
          ELSE IF render_word_panic(word) # 0
          THEN /\ MainExits("panic", render_word_panic(word))
               /\ UNCHANGED << outputFile, renderPos >>
          ELSE \E ok \in BOOLEAN :
                  IF ok
                  THEN /\ outputFile' = Append(outputFile,
                                               FormatLine(speakers[speaker_id], render_start_time(word),
                                                          render_end_time(word), Get(word, "Word").s))
                       /\ speakersLock' = Free
                       /\ renderPos' = [renderPos EXCEPT !.w = @ + 1]
                       /\ mainPc' = 78
                       /\ UNCHANGED << mainExit, transcriptLock >>
                  ELSE /\ MainExits("err", 92)
                       /\ UNCHANGED << outputFile, renderPos >>
    /\ UNCHANGED << env, configured, connected, session, events, cb, transcript_data, speakers,
                    stdout, fileCreated, processed >>

\* MainReturn that empties the buffer it has rendered.
MainReturn_Drains ==
    /\ Running /\ mainPc = 78
    /\ RenderSeek(transcript_data, renderPos.r, renderPos.h, renderPos.w).end
    /\ MainExits("ok", 100)
    /\ transcript_data' = << >>
    /\ UNCHANGED << env, configured, connected, session, events, cb, speakers,
                    stdout, fileCreated, outputFile, renderPos, processed >>

\* Lines 97-100: the loops are over; main returns Ok(()).
MainReturn ==
    /\ Running /\ mainPc = 78
    /\ RenderSeek(transcript_data, renderPos.r, renderPos.h, renderPos.w).end
    /\ MainExits("ok", 100)
    /\ UNCHANGED << env, configured, connected, session, events, cb, transcript_data, speakers,
                    stdout, fileCreated, outputFile, renderPos, processed >>

(* ------------------------------------------------------------------ *)
(* The specification                                                   *)
(* ------------------------------------------------------------------ *)

Next ==
    \/ MainDotenv
    \/ MainExpect
    \/ MainConfigure
    \/ MainConnect
    \/ MainStart
    \/ MainPoll
    \/ MainStop
    \/ SessionStarted
    \/ Emit
    \/ \E e \in EventIds : CbBegin(e)
    \/ \E e \in EventIds : CbLockPush(e)
    \/ \E e \in EventIds : CbLockSpeakers(e)
    \/ \E e \in EventIds : CbWord(e)
    \/ \E e \in EventIds : CbReturn(e)
    \/ MainCreate
    \/ MainLockTranscript
    \/ MainLockSpeakers
    \/ MainRenderWord
    \/ MainReturn

Spec == Init /\ [][Next]_vars

(* ------------------------------------------------------------------ *)
(* What the claims speak of                                            *)
(* ------------------------------------------------------------------ *)

\* The speaker-id of a word as the specification defines it: its SpeakerId
\* when that is a string, the key "Unknown" otherwise.
HasSpeakerId(word) == "SpeakerId" \in DOMAIN word.f /\ word.f.SpeakerId.t = "str"

SpeakerKeyOf(word) == IF HasSpeakerId(word) THEN word.f.SpeakerId.s ELSE "Unknown"

\* The speaker-ids of the words the aggregator has processed, in order.
ProcessedIds == [k \in 1..Len(processed) |-> SpeakerKeyOf(processed[k])]

\* The distinct members of a sequence in the order of their first appearance.
RECURSIVE FirstSeen(_)
FirstSeen(ids) ==
    IF ids = << >> THEN << >>
    ELSE LET front == FirstSeen(SubSeq(ids, 1, Len(ids) - 1))
             last == ids[Len(ids)]
         IN IF \E k \in 1..Len(front) : front[k] = last THEN front ELSE Append(front, last)

\* The labels of the progress lines printed so far.
PrintedLabels == [k \in 1..Len(stdout) |-> stdout[k].speaker]

\* C1: the registry maps the k-th distinct speaker-id, counted in order of
\* first appearance over all processed words, to "Speaker k"; an id seen
\* before keeps its entry and no new one is made. Ids [A, B, A, C] are
\* printed as Speaker 1, Speaker 2, Speaker 1, Speaker 3.
C1_FirstSeenLabels ==
    LET order == FirstSeen(ProcessedIds) IN
    /\ DOMAIN speakers = {order[k] : k \in 1..Len(order)}
    /\ Cardinality(DOMAIN speakers) = Len(order)
    /\ \A k \in 1..Len(order) : speakers[order[k]] = "Speaker " \o ToString(k)
    /\ (ProcessedIds = <<"A", "B", "A", "C">> /\ Len(stdout) = 4)
          => PrintedLabels = <<"Speaker 1", "Speaker 2", "Speaker 1", "Speaker 3">>

\* The ids [A, B, A, C] have been processed and printed.
C1_Witness ==
    /\ ProcessedIds = <<"A", "B", "A", "C">>
    /\ PrintedLabels = <<"Speaker 1", "Speaker 2", "Speaker 1", "Speaker 3">>
    /\ DOMAIN speakers = {"A", "B", "C"}

\* C3: once a speaker-id has a label, no step of a callback or of the
\* renderer changes the label or removes the entry; the registry only grows.
C3_LabelsStable ==
    [][\A id \in DOMAIN speakers : id \in DOMAIN speakers' /\ speakers'[id] = speakers[id]]_vars

\* A registry of three labels, one of them looked up again by a later word,
\* has been rendered to the end.
C3_Witness ==
    /\ mainExit = "ok"
    /\ Cardinality(DOMAIN speakers) = 3
    /\ Len(processed) > 3
    /\ Len(outputFile) > 3

\* C2: every recognition event the session emitted is fully processed by
\* the aggregator before the renderer reads the buffer: main never holds
\* the buffer for rendering while the callback run of an emitted event has
\* yet to begin or is under way.
C2_EventsProcessedBeforeRender ==
    transcriptLock = MainHolds =>
        \A e \in 1..Len(events) : cb[e].st \in {"returned", "panic"}

\* The words of a hypothesis, of a result and of a buffer in document
\* order: every hypothesis of an NBest array, every word of a Words array.
WordsOfHyp(hyp) ==
    IF hyp.t = "obj" /\ "Words" \in DOMAIN hyp.f /\ hyp.f.Words.t = "arr" THEN hyp.f.Words.a ELSE << >>

RECURSIVE WordsOfHyps(_)
WordsOfHyps(hyps) ==
    IF hyps = << >> THEN << >>
    ELSE WordsOfHyps(SubSeq(hyps, 1, Len(hyps) - 1)) \o WordsOfHyp(hyps[Len(hyps)])

WordsOfResult(res) ==
    IF res.t = "obj" /\ "NBest" \in DOMAIN res.f /\ res.f.NBest.t = "arr"
    THEN WordsOfHyps(res.f.NBest.a) ELSE << >>

RECURSIVE WordsOfBuffer(_)
WordsOfBuffer(buf) ==
    IF buf = << >> THEN << >>
    ELSE WordsOfBuffer(SubSeq(buf, 1, Len(buf) - 1)) \o WordsOfResult(buf[Len(buf)])

\* The renderer has taken the buffer (line 77 is behind main).
RenderBegun == mainPc >= 78

\* C4: the renderer writes one line per word of the buffer, results in the
\* order they were appended, hypotheses in NBest order, words in Words
\* order: the lines written so far are the first words of that flattening,
\* each with its own text and the label of its speaker-id, and a render
\* that returns has written them all.
C4_RenderInOrder ==
    LET flat == WordsOfBuffer(transcript_data) IN
    /\ ~RenderBegun => outputFile = << >>
    /\ Len(outputFile) <= Len(flat)
    /\ \A k \in 1..Len(outputFile) :
          /\ outputFile[k].text = flat[k].f.Word.s
          /\ SpeakerKeyOf(flat[k]) \in DOMAIN speakers
          /\ outputFile[k].speaker = speakers[SpeakerKeyOf(flat[k])]
    /\ mainExit = "ok" => Len(outputFile) = Len(flat)

\* Two results, one of them with two hypotheses, rendered to the end.
C4_Witness ==
    /\ mainExit = "ok"
    /\ Len(transcript_data) = 2
    /\ transcript_data[1] = EvTwoHypotheses.priv_text.value
    /\ transcript_data[2] = EvTwoSpeakers.priv_text.value
    /\ Len(outputFile) = 4
    /\ outputFile[1].speaker # outputFile[4].speaker

\* The session is active: start_continuous_recognition has been called and
\* stop_continuous_recognition has not returned.
SessionActive == session \in {"starting", "started"}

\* C5: the buffer and the registry are created empty and change only while
\* the session is active (not before start is called, not after stop has
\* returned), and the buffer is taken for rendering once, after stop.
C5_MutatedOnlyWhileActive ==
    [][/\ (mainPc = 31 /\ mainPc' = 69) => (transcript_data' = << >> /\ speakers' = << >>)
       /\ (transcript_data' # transcript_data \/ speakers' # speakers) => SessionActive
       /\ (transcriptLock # MainHolds /\ transcriptLock' = MainHolds)
             => (session = "stopped" /\ outputFile = << >>)]_vars

\* A word with a string Word and numeric Offset and Duration.
WordComplete(word) ==
    /\ "Word" \in DOMAIN word.f /\ word.f.Word.t = "str"
    /\ "Offset" \in DOMAIN word.f /\ word.f.Offset.t = "num"
    /\ "Duration" \in DOMAIN word.f /\ word.f.Duration.t = "num"

\* The processed words that got a progress line: those the callback did
\* not abort on.
PrintedWords == SelectSeq(processed, WordComplete)

\* C6: a word without a string SpeakerId goes by the registry key
\* "Unknown" in the callback and in the renderer: all such words share one
\* label, numbered first-seen like any speaker-id, and the renderer's lookup
\* for such a word finds it.
C6_UnknownSpeaker ==
    LET flat == WordsOfBuffer(transcript_data)
        order == FirstSeen(ProcessedIds)
        printed == PrintedWords
    IN
    /\ Len(printed) = Len(stdout)
    /\ \A k \in 1..Len(processed) :
          ~HasSpeakerId(processed[k]) =>
              /\ "Unknown" \in DOMAIN speakers
              /\ \E n \in 1..Len(order) :
                    order[n] = "Unknown" /\ speakers["Unknown"] = "Speaker " \o ToString(n)
    /\ \A k \in 1..Len(stdout) :
          ~HasSpeakerId(printed[k]) => stdout[k].speaker = speakers["Unknown"]
    /\ \A k \in 1..Len(outputFile) :
          ~HasSpeakerId(flat[k]) => outputFile[k].speaker = speakers["Unknown"]
    /\ (mainPc = 85 /\ ~HasSpeakerId(flat[Len(outputFile) + 1])) =>
          ("Unknown" \in DOMAIN speakers /\ mainExit # "panic")

\* Two words without a string SpeakerId, seen after two speakers, are
\* printed and rendered under the third label.
C6_Witness ==
    /\ ProcessedIds = <<"A", "B", "Unknown", "Unknown">>
    /\ mainExit = "ok"
    /\ Len(outputFile) = 4
    /\ outputFile[3].speaker = "Speaker 3" /\ outputFile[4].speaker = "Speaker 3"
    /\ stdout[3].speaker = "Speaker 3" /\ stdout[4].speaker = "Speaker 3"
    /\ "SpeakerId" \notin DOMAIN processed[3].f
    /\ "SpeakerId" \in DOMAIN processed[4].f

\* h hundredths of a second is the two-decimal value of ticks / 10,000,000 s.
NearestHundredth(h, ticks) ==
    LET u == TicksPerSecond \div 100 IN (h * u - ticks) \in (0 - (u \div 2))..(u \div 2)

\* The times of a line are those of its word.
TimesOf(line, word) ==
    LET off == word.f.Offset.n
        dur == word.f.Duration.n
    IN /\ NearestHundredth(line.start, off)
       /\ NearestHundredth(line.end, off + dur)
       /\ dur >= 0 => line.end >= line.start
       /\ (off = 50000000 /\ dur = 20000000) => (line.start = 500 /\ line.end = 700)

\* C7: the start time of a word is Offset / 10,000,000 s and its end time
\* (Offset + Duration) / 10,000,000 s, in the callback's progress line and
\* in the renderer's line alike; Offset 50,000,000 and Duration 20,000,000
\* give 5.00 and 7.00; the end is not before the start when Duration >= 0.
C7_Times ==
    LET flat == WordsOfBuffer(transcript_data)
        printed == PrintedWords
    IN
    /\ \A k \in 1..Len(stdout) : TimesOf(stdout[k], printed[k])
    /\ \A k \in 1..Len(outputFile) : TimesOf(outputFile[k], flat[k])
    /\ \A j \in 1..Len(stdout) : \A k \in 1..Len(outputFile) :
          printed[j] = flat[k] =>
              (stdout[j].start = outputFile[k].start /\ stdout[j].end = outputFile[k].end)

\* The word of Offset 50,000,000 and Duration 20,000,000 is printed and
\* rendered as 5.00 s - 7.00 s, and a word of another event beside it.
C7_Witness ==
    /\ mainExit = "ok"
    /\ Len(outputFile) = 4
    /\ \E k \in 1..Len(outputFile) :
          /\ outputFile[k].text = "again"
          /\ outputFile[k].start = 500 /\ outputFile[k].end = 700
          /\ stdout[k] = outputFile[k]
    /\ \E k \in 1..Len(outputFile) : outputFile[k].end < outputFile[k].start

\* A payload that is malformed or lacks an expected field: no text, no
\* JSON, no NBest array, a hypothesis without a Words array, or a word
\* without a string Word or a numeric Offset or Duration.
Malformed(ev) ==
    \/ ~ev.priv_text.some
    \/ ~ev.priv_text.wellformed
    \/ LET v == ev.priv_text.value IN
          \/ ~(v.t = "obj" /\ "NBest" \in DOMAIN v.f /\ v.f.NBest.t = "arr")
          \/ \E h \in 1..Len(v.f.NBest.a) :
                LET hyp == v.f.NBest.a[h] IN
                ~(hyp.t = "obj" /\ "Words" \in DOMAIN hyp.f /\ hyp.f.Words.t = "arr")
          \/ \E k \in 1..Len(WordsOfResult(v)) : ~WordComplete(WordsOfResult(v)[k])

IsSpeech(e) == events[e].reason = "RecognizedSpeech"

\* C8 as stated: a recognized-speech event with a malformed payload is
\* fatal for the run: no run ends successfully after the callback has
\* accepted or skipped such an event.
C8_MalformedIsFatal ==
    mainExit = "ok" =>
        \A e \in 1..Len(events) :
            (IsSpeech(e) /\ cb[e].st \in {"returned", "panic"}) => ~Malformed(events[e])

\* The callback runs that have appended their result (line 43 is behind them).
Appended == {e \in 1..Len(events) : IsSpeech(e) /\ cb[e].pc \in {45, 50, 54, 55, 57, 65}}

\* C8 as amended: a word without a string Word or a numeric Offset or
\* Duration makes the callback run abort at that word, and no run ends
\* successfully with such a word in the buffer; a payload without text or
\* that is no JSON aborts its callback run before anything is appended;
\* every other payload (also one without NBest or Words arrays) is
\* appended by a run that returns.
C8_BadWordIsFatal ==
    LET flat == WordsOfBuffer(transcript_data) IN
    /\ mainExit = "ok" => \A k \in 1..Len(flat) : WordComplete(flat[k])
    /\ Len(transcript_data) = Cardinality(Appended)
    /\ \A e \in 1..Len(events) :
          IsSpeech(e) =>
             /\ cb[e].st = "returned" =>
                   /\ events[e].priv_text.some /\ events[e].priv_text.wellformed
                   /\ LET ws == WordsOfResult(events[e].priv_text.value) IN
                         \A k \in 1..Len(ws) : WordComplete(ws[k])
                   /\ \E r \in 1..Len(transcript_data) :
                         transcript_data[r] = events[e].priv_text.value
             /\ (~events[e].priv_text.some \/ ~events[e].priv_text.wellformed) =>
                   /\ e \notin Appended
                   /\ cb[e].st = "panic" \/ cb[e].pc = 38

\* A result with a word that has no Word was appended after a good one:
\* its callback run aborted at line 54 and the renderer at line 86, after
\* the lines of the good result.
C8_Witness ==
    /\ mainExit = "panic" /\ mainPc = 86
    /\ Len(transcript_data) = 2
    /\ transcript_data[2] = EvNoWord.priv_text.value
    /\ cb[2].st = "panic" /\ cb[2].pc = 54
    /\ Len(outputFile) = 3

\* The words of the best-ranked hypothesis of an event.
BestWords(ev) ==
    LET v == ev.priv_text.value IN
    IF v.t = "obj" /\ "NBest" \in DOMAIN v.f /\ v.f.NBest.t = "arr" /\ v.f.NBest.a # << >>
    THEN WordsOfHyp(v.f.NBest.a[1]) ELSE << >>

\* C9 as stated: the aggregator processes the best-ranked hypothesis only:
\* every processed word is a word of NBest[0] of an emitted event, and so
\* is the source of every speaker-id of the registry.
C9_OnlyBestHypothesis ==
    /\ \A k \in 1..Len(processed) :
          \E e \in 1..Len(events) : \E j \in 1..Len(BestWords(events[e])) :
              BestWords(events[e])[j] = processed[k]
    /\ \A id \in DOMAIN speakers :
          \E e \in 1..Len(events) : \E j \in 1..Len(BestWords(events[e])) :
              SpeakerKeyOf(BestWords(events[e])[j]) = id

\* The words of ws up to and with the first one that is not complete.
RECURSIVE UpToFirstIncomplete(_)
UpToFirstIncomplete(ws) ==
    IF ws = << >> THEN << >>
    ELSE IF ~WordComplete(Head(ws)) THEN << Head(ws) >>
    ELSE << Head(ws) >> \o UpToFirstIncomplete(Tail(ws))

\* What the callback runs process of the results of a buffer.
RECURSIVE ProcessedOfBuffer(_)
ProcessedOfBuffer(buf) ==
    IF buf = << >> THEN << >>
    ELSE ProcessedOfBuffer(SubSeq(buf, 1, Len(buf) - 1))
            \o UpToFirstIncomplete(WordsOfResult(buf[Len(buf)]))

\* C9 as amended: the aggregator processes the words of every hypothesis
\* of NBest that has a Words array, in NBest order, up to the first word it
\* aborts on: the processed words are those of all results of the buffer
\* before the last and a prefix of those of the last, all of them once no
\* callback run holds the buffer; words of lower-ranked hypotheses do add
\* their speaker-ids to the registry.
C9_AllHypotheses ==
    LET before == ProcessedOfBuffer(SubSeq(transcript_data, 1, Len(transcript_data) - 1))
        all == IF transcript_data = << >> THEN << >>
               ELSE before \o UpToFirstIncomplete(WordsOfResult(transcript_data[Len(transcript_data)]))
    IN
    /\ Len(before) <= Len(processed) /\ Len(processed) <= Len(all)
    /\ processed = SubSeq(all, 1, Len(processed))
    /\ transcriptLock.who # "cb" => processed = all
    /\ \A k \in 1..Len(processed) : SpeakerKeyOf(processed[k]) \in DOMAIN speakers

\* The word of the second hypothesis of an event has been processed,
\* printed and has registered its speaker-id.
C9_Witness ==
    /\ Len(processed) = 2
    /\ processed[2] = EvTwoHypotheses.priv_text.value.f.NBest.a[2].f.Words.a[1]
    /\ "D" \in DOMAIN speakers /\ speakers["D"] = "Speaker 2"
    /\ Len(stdout) = 2 /\ stdout[2].text = "high"

\* The first required variable that is unset.
FirstUnset ==
    CHOOSE i \in 1..Len(Required) :
        Required[i] \notin env /\ \A j \in 1..(i - 1) : Required[j] \in env

\* C10: with a required variable unset (once dotenv has run), main panics
\* at the expect of the first unset one, before the recognizer is
\* configured, before recognition is started and before the output file is
\* created.
C10_EnvCheckedFirst ==
    (mainPc # 15 /\ ~(RequiredSet \subseteq env)) =>
        /\ ~configured /\ ~connected /\ ~fileCreated
        /\ session = "idle" /\ events = << >>
        /\ mainPc \in 17..(16 + FirstUnset)
        /\ mainExit \in {"running", "panic"}
        /\ mainExit = "panic" => mainPc = 16 + FirstUnset

\* OUTPUT_FILE alone is unset and main has panicked at line 20.
C10_Witness ==
    /\ env = RequiredSet \ {"OUTPUT_FILE"}
    /\ mainExit = "panic" /\ mainPc = 20
    /\ ~configured /\ session = "idle" /\ ~fileCreated

\* A step of the render pass: main moves on from line 77, 78 or 85.
RenderStep ==
    /\ mainExit = "running" /\ mainPc \in {77, 78, 85}
    /\ mainPc' # mainPc \/ mainExit' # mainExit

\* The lines out are those of the first words of buffer buf under the
\* registry reg: text, label and two-decimal times of each word in turn.
LinesFrom(out, buf, reg) ==
    LET flat == WordsOfBuffer(buf) IN
    /\ Len(out) <= Len(flat)
    /\ \A k \in 1..Len(out) :
          /\ WordComplete(flat[k])
          /\ out[k].text = flat[k].f.Word.s
          /\ SpeakerKeyOf(flat[k]) \in DOMAIN reg
          /\ out[k].speaker = reg[SpeakerKeyOf(flat[k])]
          /\ NearestHundredth(out[k].start, flat[k].f.Offset.n)
          /\ NearestHundredth(out[k].end, flat[k].f.Offset.n + flat[k].f.Duration.n)

\* C11: rendering is read-only and repeatable: no step of the render pass
\* changes the buffer or the registry, and the lines written are fixed by
\* the buffer and the registry alone (all of them when the pass returns),
\* so a second pass over the same two would write the same lines.
C11_RenderReadOnly ==
    [][RenderStep =>
          /\ transcript_data' = transcript_data
          /\ speakers' = speakers
          /\ LinesFrom(outputFile', transcript_data', speakers')
          /\ mainExit' = "ok" => Len(outputFile') = Len(WordsOfBuffer(transcript_data'))]_vars

\* A pass over two results has returned: three lines are written, and the
\* buffer and the registry are as the callback runs left them.
C11_Witness ==
    /\ mainExit = "ok"
    /\ Len(transcript_data) = 2
    /\ Len(outputFile) = 3
    /\ processed = WordsOfBuffer(transcript_data)
    /\ Cardinality(DOMAIN speakers) = 2

\* C12: the main flow goes start -> session-started seen true -> stop ->
\* create the output file -> render: stop is not requested and the file is
\* not created before the flag was seen true, and for as long as the
\* session has not reported started main stays in the poll of line 71.
C12_FixedOrder ==
    /\ session = "idle" => (mainPc <= 69 /\ events = << >>)
    /\ session = "starting" => (mainPc = 71 /\ mainExit = "running")
    /\ mainPc >= 72 => session \in {"started", "stopped"}
    /\ session = "stopped" => mainPc >= 75
    /\ mainPc >= 75 => session = "stopped"
    /\ fileCreated <=> mainPc >= 77
    /\ (transcriptLock = MainHolds \/ outputFile # << >>) => (fileCreated /\ mainPc >= 78)

\* The whole order has been gone through: started, stopped, file created,
\* two events rendered, main returned.
C12_Witness ==
    /\ mainExit = "ok" /\ mainPc = 100
    /\ session = "stopped" /\ fileCreated
    /\ Len(events) = 2 /\ Len(transcript_data) = 2
    /\ Len(outputFile) = 2

\* The renderer holds the buffer and is in its loops.
Rendering == mainExit = "running" /\ mainPc \in {78, 85}

\* C13 as stated: the renderer's lookup never fails, and no result is in
\* the buffer the renderer holds while the speaker-id of one of its words
\* is not in the registry.
C13_ResultsFullyRegistered ==
    /\ ~(mainExit = "panic" /\ mainPc = 85)
    /\ Rendering =>
          \A k \in 1..Len(WordsOfBuffer(transcript_data)) :
              SpeakerKeyOf(WordsOfBuffer(transcript_data)[k]) \in DOMAIN speakers

\* C13 as amended: the renderer's lookup never fails: a callback run keeps
\* the buffer lock from the append to its end, so in the buffer the
\* renderer holds every word up to and with the first one that lacks a
\* field is registered, and the renderer aborts on that word (where the
\* callback run aborted) before it reaches the unregistered ones after it.
C13_LookupNeverFails ==
    LET flat == WordsOfBuffer(transcript_data)
        reach == UpToFirstIncomplete(flat)
    IN
    /\ ~(mainExit = "panic" /\ mainPc = 85)
    /\ \A e \in 1..Len(events) :
          (cb[e].st = "running" /\ cb[e].pc \in {45, 50}) => transcriptLock = CbHolds(e)
    /\ Rendering =>
          /\ \A k \in 1..Len(reach) : SpeakerKeyOf(reach[k]) \in DOMAIN speakers
          /\ Len(outputFile) < Len(reach) \/ (mainPc = 78 /\ Len(outputFile) = Len(reach))
    /\ (mainExit = "panic" /\ mainPc \in {86, 87, 89}) =>
          /\ Len(outputFile) + 1 = Len(reach)
          /\ ~WordComplete(reach[Len(reach)])

\* The renderer is at the lookup of the second word of a result while the
\* callback run of a later event waits for the buffer.
C13_Witness ==
    /\ Rendering /\ mainPc = 85
    /\ speakersLock = MainHolds
    /\ Len(transcript_data) = 1 /\ Len(outputFile) = 1
    /\ cb[2].st = "running" /\ cb[2].pc = 42

\* C14: from the step in which the renderer takes the buffer lock to the
\* end of the run neither the buffer nor the registry changes: a callback
\* run that comes in meanwhile stays before its append (line 42 at most),
\* so the output is that of one snapshot of both.
C14_SnapshotWhileRendering ==
    [][mainPc >= 78 =>
          /\ transcript_data' = transcript_data
          /\ speakers' = speakers
          /\ \A e \in EventIds : cb'[e].st = "running" => cb'[e].pc \in {38, 42}]_vars

\* A callback run came to the buffer lock during the render and was still
\* waiting there when main returned with both lines of the one result.
C14_Witness ==
    /\ mainExit = "ok"
    /\ Len(transcript_data) = 1 /\ Len(outputFile) = 2
    /\ cb[2].st = "running" /\ cb[2].pc = 42
    /\ events[2].priv_text.wellformed

\* The holders that can wait: main and the callback runs.
Holders == {MainHolds} \cup {CbHolds(e) : e \in EventIds}

\* The holder stands at the lock() of the buffer (line 77, line 42).
AtTranscriptLock(p) ==
    IF p = MainHolds THEN mainExit = "running" /\ mainPc = 77
    ELSE cb[p.id].st = "running" /\ cb[p.id].pc = 42

\* The holder stands at the lock() of the registry for its next word
\* (line 84, line 49).
AtSpeakersLock(p) ==
    IF p = MainHolds
    THEN /\ mainExit = "running" /\ mainPc = 78
         /\ Len(outputFile) < Len(WordsOfBuffer(transcript_data))
    ELSE /\ cb[p.id].st = "running" /\ cb[p.id].pc = 45
         /\ ~CbSeek(ResultJson(p.id), cb[p.id].h, cb[p.id].w).end

\* C15: the callback runs and the main flow cannot deadlock on the two
\* locks: whoever holds the registry lock holds the buffer lock too, the
\* holder of the buffer lock finds the registry lock free when it comes to
\* take it, and no two of them each wait for the lock the other holds.
C15_NoLockDeadlock ==
    /\ speakersLock # Free => transcriptLock = speakersLock
    /\ (transcriptLock # Free /\ AtSpeakersLock(transcriptLock)) =>
          /\ speakersLock = Free
          /\ \A q \in Holders \ {transcriptLock} :
                ~(speakersLock = q /\ AtTranscriptLock(q))

\* A callback run holds both locks while main and the run of another
\* event wait for the buffer lock.
C15_Witness ==
    /\ transcriptLock = CbHolds(1) /\ speakersLock = CbHolds(1)
    /\ cb[1].pc = 50
    /\ AtTranscriptLock(MainHolds)
    /\ AtTranscriptLock(CbHolds(2))

\* The speaker-ids of the words of the buffer, in render order.
BufferIds(ws) == [k \in 1..Len(ws) |-> SpeakerKeyOf(ws[k])]

\* The number n of the label "Speaker n" (0 for a label out of range).
LabelNo(l) ==
    LET range == 1..Cardinality(DOMAIN speakers) IN
    IF \E n \in range : Label(n) = l THEN CHOOSE n \in range : Label(n) = l ELSE 0

\* The labels of the registry are pairwise distinct and exactly
\* Speaker 1 .. Speaker n for its n entries.
LabelsDense ==
    /\ \A a, b \in DOMAIN speakers : speakers[a] = speakers[b] => a = b
    /\ {speakers[id] : id \in DOMAIN speakers} = {Label(i) : i \in 1..Cardinality(DOMAIN speakers)}

\* C16 as stated: in every state in which the renderer can read the
\* buffer, the registered speaker-ids of all buffered words, scanned in
\* render order, first appear in increasing label number, and the labels
\* are pairwise distinct and exactly Speaker 1 .. Speaker n; also after a
\* callback run that aborted part-way.
C16_LabelsFollowBufferOrder ==
    transcriptLock.who # "cb" =>
        LET Registered(id) == id \in DOMAIN speakers
            order == FirstSeen(SelectSeq(BufferIds(WordsOfBuffer(transcript_data)), Registered))
        IN
        /\ \A i, j \in 1..Len(order) :
              i < j => LabelNo(speakers[order[i]]) < LabelNo(speakers[order[j]])
        /\ LabelsDense

\* C16 as amended: the labels are always pairwise distinct and exactly
\* Speaker 1 .. Speaker n, and in every state in which the renderer can
\* read the buffer, the speaker-ids of the buffered words it reaches (those
\* up to and with the first word that lacks a field, on which it aborts)
\* first appear in increasing label number: the k-th of them has the label
\* Speaker k. Words behind a word a callback run aborted on may carry ids
\* that are unregistered or were numbered after those of later results.
C16_LabelsFollowReachedOrder ==
    /\ LabelsDense
    /\ transcriptLock.who # "cb" =>
          LET order == FirstSeen(BufferIds(UpToFirstIncomplete(WordsOfBuffer(transcript_data))))
          IN \A k \in 1..Len(order) :
                order[k] \in DOMAIN speakers /\ speakers[order[k]] = Label(k)

\* The callback run of the first event has aborted on its first word, the
\* run of the second has registered two more ids, and main holds the
\* buffer and is about to render.
C16_Witness ==
    /\ Len(transcript_data) = 2
    /\ transcript_data[1] = EvNoDuration.priv_text.value
    /\ cb[1].st = "panic" /\ cb[2].st = "returned"
    /\ Cardinality(DOMAIN speakers) = 3
    /\ transcriptLock = MainHolds /\ mainPc = 78 /\ mainExit = "running"

====
